---- MODULE Spec2Model ----
(***************************************************************************)
(* Model of the payments copilot core: the extractor (extractor.py), the   *)
(* rule engine (validate.py), the SR2026 overlay (sr2026.py), the          *)
(* structural validator (xsd_validate.py), the failure classifier          *)
(* (failure_analyzer.py) and the input router (autopilot.py).              *)
(*                                                                         *)
(* Every operation is a synchronous function of its arguments and of the   *)
(* files it reads.  The state machine has one action per public            *)
(* operation: from the idle state an operation is called on an input, runs *)
(* to its end (a returned value or a raised exception) and the outcome is  *)
(* kept in `result`; Return goes back to idle.                             *)
(*                                                                         *)
(* A second state machine (SpecRequests) runs several requests at once,    *)
(* statement group by statement group, on the one object the requests      *)
(* share: the reason-code table PACS002_CODES, held in `codes`; the        *)
(* requests in progress are in `reqs`.                                     *)
(*                                                                         *)
(* Text.  A text is a finite sequence of chunks.  A chunk is either a      *)
(* marker the code tests for ("<", ":20:", "pacs.008", ...), whitespace    *)
(* (WS) or "x", a run of other non-blank characters.  `m in text` is       *)
(* membership of the chunk, str.strip() drops the blank chunks at both     *)
(* ends, str.lower() maps every chunk to its lower-case form and           *)
(* str.startswith(m) tests the first chunk.                                *)
(*                                                                         *)
(* Values.  Field values are strings; str.strip() on a value is StripVal.  *)
(* Python's None is the value None.                                        *)
(***************************************************************************)
EXTENDS Naturals, Sequences, FiniteSets, TLC

VARIABLES call, result, codes, reqs

vars == <<call, result, codes, reqs>>

(* ------------------------------ bounds --------------------------------- *)

\* longest text, in chunks
MaxLen == 3

\* longest text given to the input classifier alone, in chunks
MaxKindLen == 4

(* ------------------------------ text ----------------------------------- *)

None == "~None"

WS == " "

Chunks ==
    { WS, "<", ">", "pacs.008", "PACS.008", "FIToFICstmrCdtTrf", "pacs.002",
      "FIToFIPmtStsRpt", ":20:", ":32A:", ":23B:", "validate:", "reject", "AC04", "x" }

\* str.lower() on one chunk
LowerChunk(c) ==
    CASE c = "PACS.008" -> "pacs.008"
      [] c = "FIToFICstmrCdtTrf" -> "fitoficstmrcdttrf"
      [] c = "FIToFIPmtStsRpt" -> "fitofipmtstsrpt"
      [] c = "AC04" -> "ac04"
      [] OTHER -> c

Lower(t) == [i \in DOMAIN t |-> LowerChunk(t[i])]

\* `m in t`
Contains(t, m) == \E i \in DOMAIN t : t[i] = m

RECURSIVE LStrip(_)
LStrip(t) == IF t # <<>> /\ Head(t) = WS THEN LStrip(Tail(t)) ELSE t

RECURSIVE RStrip(_)
RStrip(t) ==
    IF t # <<>> /\ t[Len(t)] = WS THEN RStrip(SubSeq(t, 1, Len(t) - 1)) ELSE t

\* str.strip()
Strip(t) == RStrip(LStrip(t))

\* str.startswith(m)
StartsWith(t, m) == t # <<>> /\ Head(t) = m

SeqsUpTo(S, n) == UNION { [1..k -> S] : k \in 0..n }

(* ------------------------------ values --------------------------------- *)

\* str.strip() on a field value (the values of the model, blank-padded or not)
StripVal(v) ==
    CASE v = " " -> ""
      [] v = " SHAR" -> "SHAR"
      [] v = " REF1 " -> "REF1"
      [] OTHER -> v

\* Python truthiness of an Optional[str]
Truthy(v) == v # None /\ v # ""

\* `a or b`
Or(a, b) == IF Truthy(a) THEN a ELSE b

(* ------------------------------ inputs --------------------------------- *)
(* What lxml and the regular expressions find in a text is not decided by  *)
(* its chunks alone ("x" stands for any other characters), so an input     *)
(* carries it: `xml` is what etree.fromstring makes of the text (wf =      *)
(* FALSE: XMLSyntaxError; otherwise the first text node under each path    *)
(* the code queries, None when the path selects nothing, and the Ccy       *)
(* attribute of the first IntrBkSttlmAmt element), `mt` the group captured *)
(* by re.search for each MT tag (None: no match), `uuid` the first match   *)
(* of UUID_RE (None: no match), `scan` the first match of the reason-code  *)
(* pattern [A-Z]{2}\d{2} (None: no match).                                 *)

Pacs008Paths ==
    { "MsgId", "CreDtTm", "InstrId", "EndToEndId", "IntrBkSttlmAmt",
      "DbtrNm", "CdtrNm", "ChrgBr", "UETR" }

Pacs002Paths ==
    { "GrpSts", "TxSts", "RsnCd", "RsnPrtry", "AddtlInf", "OrgnlMsgId",
      "OrgnlMsgNmId", "OrgnlCreDtTm", "OrgnlInstrId", "OrgnlEndToEndId",
      "OrgnlUETR", "UETR" }

XmlPaths == Pacs008Paths \cup Pacs002Paths

MtTags == << "20", "23B", "32A", "50K", "59", "71A", "121" >>

MtTagSet == { MtTags[i] : i \in DOMAIN MtTags }

NoNodes == [p \in XmlPaths |-> None]

MalformedXml == [wf |-> FALSE, node |-> NoNodes, ccy |-> None]

\* a credit-transfer document: charge bearer text and currency attribute
CreditDoc(chrg, ccy) ==
    [wf |-> TRUE, node |-> [NoNodes EXCEPT !["ChrgBr"] = chrg], ccy |-> ccy]

SampleUuid == "3f2b8c1e-9d4a-4b6f-8a2e-1c5d7e9f0a1b"

\* the references of a status report: none, the original UETR alone (and
\* a blank additional-information element), or all of them
StatusRefs(refs) ==
    IF refs = "none" THEN NoNodes
    ELSE IF refs = "uetr"
    THEN [NoNodes EXCEPT !["OrgnlUETR"] = SampleUuid, !["AddtlInf"] = " "]
    ELSE [NoNodes EXCEPT !["TxSts"] = "RJCT", !["OrgnlUETR"] = SampleUuid,
                         !["OrgnlMsgId"] = "MSG-1", !["OrgnlInstrId"] = "INSTR-1",
                         !["OrgnlEndToEndId"] = "E2E-1", !["AddtlInf"] = "Account closed"]

\* a status report: coded reason, proprietary reason, references
StatusDoc(cd, prtry, refs) ==
    [wf |-> TRUE,
     node |-> [StatusRefs(refs) EXCEPT !["RsnCd"] = cd, !["RsnPrtry"] = prtry],
     ccy |-> None]

WellFormedDocs ==
    { CreditDoc(c, y) : c \in {None, " ", " SHAR", "XXXX"}, y \in {None, " ", "USD"} }
        \cup { StatusDoc(cd, pr, refs) :
                    cd \in {None, "AC04", "NARR"}, pr \in {None, "ZZ99"},
                    refs \in {"none", "uetr", "all"} }

\* libxml2 accepts a document only if, blanks aside, it starts with "<" and
\* ends with ">"
CanBeWellFormed(t) ==
    LET s == Strip(t) IN Len(s) >= 2 /\ s[1] = "<" /\ s[Len(s)] = ">"

XmlOutcomes(t) ==
    IF CanBeWellFormed(t) THEN {MalformedXml} \cup WellFormedDocs ELSE {MalformedXml}

NoCaptures == [g \in MtTagSet |-> None]

\* re.search(":TAG:(.*?)(?=\n:|\Z)") matches iff ":TAG:" occurs in the text
MtOutcomes(t) ==
    { [NoCaptures EXCEPT !["20"] = v20, !["32A"] = v32, !["23B"] = v23, !["71A"] = v71] :
        v20 \in (IF Contains(t, ":20:") THEN {" ", " REF1 "} ELSE {None}),
        v32 \in (IF Contains(t, ":32A:") THEN {"250101USD1000,00"} ELSE {None}),
        v23 \in (IF Contains(t, ":23B:") THEN {"CRED"} ELSE {None}),
        v71 \in (IF Contains(t, ":20:") /\ Contains(t, ":32A:")
                 THEN {None, " SHAR", "XXXX"} ELSE {None}) }

\* a UUID is in the document's OrgnlUETR or among other characters ("x")
UuidOutcomes(t, doc) ==
    IF doc.node["OrgnlUETR"] = SampleUuid THEN {SampleUuid}
    ELSE IF Contains(t, "x") THEN {None, SampleUuid} ELSE {None}

\* the values of the model that match [A-Z]{2}\d{2}
ScanTokens == { "AC04", "ZZ99" }

\* the first match is any of the tokens of the text and of the document
ScanOutcomes(t, doc) ==
    LET found == (IF Contains(t, "AC04") THEN {"AC04"} ELSE {})
                    \cup ({doc.node["RsnCd"], doc.node["RsnPrtry"]} \cap ScanTokens)
    IN  IF found = {} THEN {None} ELSE found

\* a legacy message whose field values hold "<" and the pacs.008 marker
MtWithMarker == <<":20:", "<", "pacs.008", ":32A:">>

\* a truncated status report that names the message it answers and a UETR
TruncatedStatus == <<"<", "pacs.002", ">", "pacs.008", "x">>

Texts == SeqsUpTo(Chunks, MaxLen) \cup { MtWithMarker, TruncatedStatus }

\* the texts the input classifier is tried on
KindTexts == SeqsUpTo(Chunks, MaxKindLen)

Inputs ==
    UNION { UNION { { [text |-> t, xml |-> x, mt |-> m, uuid |-> u, scan |-> c] :
                        m \in MtOutcomes(t), u \in UuidOutcomes(t, x),
                        c \in ScanOutcomes(t, x) } :
                    x \in XmlOutcomes(t) } :
            t \in Texts }

(* ------------------------------ outcomes ------------------------------- *)

\* a returned value, or a raised exception
Ok(v) == [exc |-> None, val |-> v]

Raise(e) == [exc |-> e, val |-> None]

Raised(r) == r.exc # None

(* ------------------------------ autopilot.py: detect_input_kind -------- *)

CommandPrefixes == { "validate:", "sr2026:", "xsd_validate:", "failure_analysis:" }

IncidentKeywords ==
    { "rjct", "reject", "rejected", "return", "failed", "ac04", "ac01", "ag01", "am04" }

\* a faulty classifier: the legacy-text test runs before the XML test and
\* the credit-transfer marker is looked for before the status-report marker
detect_input_kind_reordered(text) ==
    LET t == Strip(text)
        low == Lower(t)
    IN  IF \E c \in CommandPrefixes : StartsWith(low, c) THEN "command"
        ELSE IF Contains(t, ":20:") /\ (Contains(t, ":32A:") \/ Contains(t, ":23B:"))
        THEN "mt_like"
        ELSE IF Contains(t, "<") /\ Contains(t, ">") /\ StartsWith(LStrip(t), "<")
        THEN IF Contains(low, "pacs.008") \/ Contains(low, "fitoficstmrcdttrf")
             THEN "pacs008_xml"
             ELSE IF Contains(low, "pacs.002") \/ Contains(low, "fitofipmtstsrpt")
             THEN "pacs002_xml"
             ELSE "xml_other"
        ELSE IF \E k \in IncidentKeywords : Contains(low, k) THEN "incident_text"
        ELSE "free_text"

detect_input_kind(text) ==
    LET t == Strip(text)
        low == Lower(t)
    IN  IF \E c \in CommandPrefixes : StartsWith(low, c) THEN "command"
        ELSE IF Contains(t, "<") /\ Contains(t, ">") /\ StartsWith(LStrip(t), "<")
        THEN IF Contains(low, "pacs.002") \/ Contains(low, "fitofipmtstsrpt")
             THEN "pacs002_xml"
             ELSE IF Contains(low, "pacs.008") \/ Contains(low, "fitoficstmrcdttrf")
             THEN "pacs008_xml"
             ELSE "xml_other"
        ELSE IF Contains(t, ":20:") /\ (Contains(t, ":32A:") \/ Contains(t, ":23B:"))
        THEN "mt_like"
        ELSE IF \E k \in IncidentKeywords : Contains(low, k) THEN "incident_text"
        ELSE "free_text"

(* ------------------------------ extractor.py --------------------------- *)

RECURSIVE MtFields(_, _)
MtFields(caps, tags) ==
    IF tags = <<>> THEN <<>>
    ELSE LET t == Head(tags)
             v == IF caps[t] = None THEN None ELSE StripVal(caps[t])
             rest == MtFields(caps, Tail(tags))
         IN  IF Truthy(v) THEN << <<t, v>> >> \o rest ELSE rest

\* a dict as a function from its keys
Dict(pairs) ==
    [k \in { pairs[i][1] : i \in DOMAIN pairs } |->
        LET i == CHOOSE j \in DOMAIN pairs : pairs[j][1] = k IN pairs[i][2]]

DictGet(d, k) == IF k \in DOMAIN d THEN d[k] ELSE None

parse_mt103(inp) ==
    Ok([msg_type |-> "MT103", fields |-> Dict(MtFields(inp.mt, MtTags)), checks |-> <<>>])

\* x(xpath): the first text node, stripped, or None
XPathText(doc, p) ==
    IF doc.node[p] = None THEN None ELSE Or(StripVal(doc.node[p]), None)

parse_pacs008(inp) ==
    IF ~inp.xml.wf THEN Raise("XMLSyntaxError")
    ELSE LET base == [p \in Pacs008Paths |-> XPathText(inp.xml, p)]
             ccy == inp.xml.ccy
             fields == IF Truthy(ccy)
                       THEN [k \in Pacs008Paths \cup {"Ccy"} |->
                                IF k = "Ccy" THEN StripVal(ccy) ELSE base[k]]
                       ELSE base
         IN  Ok([msg_type |-> "pacs.008", fields |-> fields, checks |-> <<>>])

detect_and_parse(inp) ==
    IF Contains(inp.text, "<") /\ Contains(inp.text, "pacs.008") THEN parse_pacs008(inp)
    ELSE IF Contains(inp.text, ":20:") /\ Contains(inp.text, ":32A:") THEN parse_mt103(inp)
    ELSE Ok([msg_type |-> "unknown", fields |-> <<>>, checks |-> <<"Unknown format">>])

(* ------------------------------ rule files ----------------------------- *)
(* rules/rules.yaml and rules/sr2026.yaml are data read at every call.  A  *)
(* rule is the mapping the YAML gives; a key the YAML leaves out is None   *)
(* (id, field, type, severity), "" (desc, pattern, message) or <<>>        *)
(* (allowed).  A file is [exists, doc]: doc maps normalized message types  *)
(* to rulesets.                                                            *)

\* longest rule list of a ruleset
MaxRules == 2

PatChargeBearer == "^(SHAR|DEBT|CRED)$"

\* re.match(pat, val) on the values of the model
ReMatch(pat, val) ==
    CASE pat = "" -> TRUE
      [] pat = PatChargeBearer -> val \in {"SHAR", "DEBT", "CRED"}
      [] OTHER -> FALSE

Rule(type, field, id, desc, pattern, allowed, severity, message) ==
    [type |-> type, field |-> field, id |-> id, desc |-> desc, pattern |-> pattern,
     allowed |-> allowed, severity |-> severity, message |-> message]

\* the two fields the rules of a message type speak of
KindFields(k) == IF k = "mt103" THEN <<"71A", "20">> ELSE <<"ChrgBr", "Ccy">>

BaseRuleUniverse(k) ==
    LET a == KindFields(k)[1] IN
    { Rule("regex_field", a, "R_FMT", "Charge bearer format", PatChargeBearer, <<>>, None, ""),
      Rule("regex_optional", a, "R_OPT", "Charge bearer advisory", PatChargeBearer, <<>>, None, ""),
      Rule("in_set", a, None, "Charge bearer code", "", <<"SHAR", "DEBT", "CRED">>, None, ""),
      Rule("guidance", None, "R_NOTE", "Reminder", "", <<>>, "ERROR", "check cut-off") }

OverlayRuleUniverse(k) ==
    LET a == KindFields(k)[1] IN
    { Rule("guidance", None, "SR_NOTE", "Structured address", "", <<>>, "ERROR", ""),
      Rule("guidance", a, None, "", "", <<>>, None, "hybrid allowed"),
      Rule("in_set", a, "SR_CHRG", "Charge bearer SR2026", "", <<"SHAR">>, None, ""),
      Rule("regex_field", a, "SR_FMT", "Charge bearer format", PatChargeBearer, <<>>, None, "") }

MandatoryLists(k) ==
    { <<>>, <<KindFields(k)[1]>>, <<KindFields(k)[2], KindFields(k)[1]>> }

RuleSets(k) ==
    { [mandatory_fields |-> m, rules |-> r] :
        m \in MandatoryLists(k), r \in SeqsUpTo(BaseRuleUniverse(k), MaxRules) }

Overlays(k) == { [rules |-> r] : r \in SeqsUpTo(OverlayRuleUniverse(k), MaxRules) }

MissingFile == [exists |-> FALSE, doc |-> <<>>]

\* `yaml.safe_load(f) or {}` of an empty file
EmptyFile == [exists |-> TRUE, doc |-> <<>>]

FileOf(k, v) == [exists |-> TRUE, doc |-> [x \in {k} |-> v]]

\* a ruleset with mandatory fields and one rule of each kind of outcome
SampleRuleSet(k) ==
    CHOOSE rs \in RuleSets(k) :
        /\ rs.mandatory_fields # <<>>
        /\ Len(rs.rules) = 2
        /\ rs.rules[1].type = "guidance"
        /\ rs.rules[2].type = "in_set"

SampleOverlay(k) ==
    CHOOSE ov \in Overlays(k) :
        /\ Len(ov.rules) = 2
        /\ ov.rules[1].type = "regex_field"
        /\ ov.rules[2].type = "in_set"

\* rules.yaml with a ruleset for both message types
SampleRulesFile ==
    [exists |-> TRUE,
     doc |-> [k \in {"mt103", "pacs008"} |-> SampleRuleSet(k)]]

SampleOverlayFile ==
    [exists |-> TRUE,
     doc |-> [k \in {"mt103", "pacs008"} |-> SampleOverlay(k)]]

FewRulesFiles == { MissingFile, EmptyFile, SampleRulesFile }

\* rules.yaml that knows legacy messages only
MtOnlyRulesFile == FileOf("mt103", SampleRuleSet("mt103"))

FewOverlayFiles == { MissingFile, SampleOverlayFile }

\* the normalized type detect_and_parse can give an input, "" if none
InputKey(inp) ==
    IF Contains(inp.text, "<") /\ Contains(inp.text, "pacs.008")
    THEN IF inp.xml.wf THEN "pacs008" ELSE ""
    ELSE IF Contains(inp.text, ":20:") /\ Contains(inp.text, ":32A:") THEN "mt103"
    ELSE ""

\* the messages every ruleset is tried on
SampleTexts == { <<"<", "pacs.008", ">">>, <<":20:", ":32A:">>, <<":20:", ":23B:", ":32A:">> }

\* the rules files an input is validated against: a few files for every
\* input, every ruleset of its message type for a sample message
RulesFiles(inp) ==
    FewRulesFiles \cup { MtOnlyRulesFile } \cup
        (IF inp.text \in SampleTexts /\ InputKey(inp) # ""
         THEN { FileOf(InputKey(inp), rs) : rs \in RuleSets(InputKey(inp)) }
         ELSE {})

OverlayFiles(inp) ==
    FewOverlayFiles \cup
        (IF inp.text \in SampleTexts /\ InputKey(inp) # ""
         THEN { EmptyFile } \cup { FileOf(InputKey(inp), ov) : ov \in Overlays(InputKey(inp)) }
         ELSE {})

(* ------------------------------ validate.py ---------------------------- *)

load_rules(file) == IF ~file.exists THEN Raise("FileNotFoundError") ELSE Ok(file.doc)

\* str.lower() on a message type
LowerVal(v) == CASE v = "MT103" -> "mt103" [] OTHER -> v

normalize_msg_type(msg_type) ==
    LET t == LowerVal(StripVal(Or(msg_type, "")))
    IN  IF t = "mt103" THEN "mt103"
        ELSE IF t \in {"pacs.008", "pacs008"} THEN "pacs008"
        ELSE t

get_field(parsed, key) ==
    LET val == DictGet(parsed.fields, key)
    IN  IF val = None THEN None
        ELSE LET v == StripVal(val) IN IF v # "" THEN v ELSE None

Finding(severity, code, field, message) ==
    [severity |-> severity, code |-> code, field |-> field, message |-> message]

\* a faulty check_mandatory: only an absent key counts as missing
RECURSIVE check_mandatory_absent_only(_, _)
check_mandatory_absent_only(parsed, mandatory_fields) ==
    IF mandatory_fields = <<>> THEN <<>>
    ELSE LET f == Head(mandatory_fields)
             rest == check_mandatory_absent_only(parsed, Tail(mandatory_fields))
         IN  IF DictGet(parsed.fields, f) = None
             THEN <<Finding("ERROR", "MISSING_MANDATORY", f, <<"Missing mandatory field: ", f>>)>>
                      \o rest
             ELSE rest

RECURSIVE check_mandatory(_, _)
check_mandatory(parsed, mandatory_fields) ==
    IF mandatory_fields = <<>> THEN <<>>
    ELSE LET f == Head(mandatory_fields)
             rest == check_mandatory(parsed, Tail(mandatory_fields))
         IN  IF ~Truthy(get_field(parsed, f))
             THEN <<Finding("ERROR", "MISSING_MANDATORY", f, <<"Missing mandatory field: ", f>>)>>
                      \o rest
             ELSE rest

\* str(x) inside an f-string
Str(v) == IF v = None THEN "None" ELSE v

\* rule.get(key, default)
Get(v, default) == IF v = None THEN default ELSE v

InList(v, list) == \E i \in DOMAIN list : list[i] = v

\* run_rule: <<finding>>, or <<>> for None
run_rule(parsed, rule) ==
    LET rtype == rule.type
        field == rule.field
        rid == Get(rule.id, "RULE")
        desc == rule.desc
        val == IF Truthy(field) THEN get_field(parsed, field) ELSE None
    IN  IF rtype = "regex_field"
        THEN IF ~Truthy(val)
             THEN <<Finding("ERROR", rid, field, <<desc, " (field missing/empty)">>)>>
             ELSE IF ~ReMatch(rule.pattern, val)
             THEN <<Finding("ERROR", rid, field, <<desc, ". Found: ", val>>)>>
             ELSE <<>>
        ELSE IF rtype = "regex_optional"
        THEN IF ~Truthy(val) THEN <<>>
             ELSE IF ~ReMatch(rule.pattern, val)
             THEN <<Finding("WARN", rid, field, <<desc, ". Found: ", val>>)>>
             ELSE <<>>
        ELSE IF rtype = "in_set"
        THEN IF ~Truthy(val)
             THEN <<Finding("ERROR", rid, field, <<desc, " (field missing/empty)">>)>>
             ELSE IF ~InList(val, rule.allowed)
             THEN <<Finding("ERROR", rid, field,
                            <<desc, ". Found: ", val, ". Allowed: ">> \o rule.allowed)>>
             ELSE <<>>
        ELSE <<Finding("WARN", "UNKNOWN_RULE_TYPE", field,
                       <<"Unknown rule type: ", Str(rtype), " for rule ", rid>>)>>

\* a faulty loop: the rules are evaluated last to first
RECURSIVE RunRulesReversed(_, _)
RunRulesReversed(parsed, rules) ==
    IF rules = <<>> THEN <<>>
    ELSE RunRulesReversed(parsed, Tail(rules)) \o run_rule(parsed, Head(rules))

RECURSIVE RunRules(_, _)
RunRules(parsed, rules) ==
    IF rules = <<>> THEN <<>>
    ELSE run_rule(parsed, Head(rules)) \o RunRules(parsed, Tail(rules))

ParserChecks(checks) ==
    [i \in DOMAIN checks |-> Finding("WARN", "PARSER_CHECK", None, <<checks[i]>>)]

CountSeverity(issues, sev) == Cardinality({ i \in DOMAIN issues : issues[i].severity = sev })

\* a faulty summary: the counts of the empty report are kept
SummarizeStale(report, issues) == [report EXCEPT !.issues = issues]

\* the report of a ruleset's findings, counted
Summarize(report, issues) ==
    [report EXCEPT !.issues = issues,
                   !.summary = [errors |-> CountSeverity(issues, "ERROR"),
                                warnings |-> CountSeverity(issues, "WARN")]]

\* a faulty NO_RULESET path: the finding is an error
NoRulesetAsError(report, msg_type_raw) ==
    [report EXCEPT
        !.issues = <<Finding("ERROR", "NO_RULESET", None,
                     <<"No ruleset found for message type: ", msg_type_raw>>)>>,
        !.summary = [errors |-> 1, warnings |-> 0]]

\* `if msg_type not in rules_all`: one finding, counts set by hand
NoRulesetReport(report, msg_type_raw) ==
    [report EXCEPT
        !.issues = <<Finding("WARN", "NO_RULESET", None,
                     <<"No ruleset found for message type: ", msg_type_raw>>)>>,
        !.summary = [errors |-> 0, warnings |-> 1]]

\* validate_message once the rules are loaded and the text is parsed
ValidateParsed(rules_all, parsed) ==
    LET msg_type_raw == parsed.msg_type
        msg_type == normalize_msg_type(msg_type_raw)
        report == [detected_type |-> msg_type_raw, normalized_type |-> msg_type,
                   extracted |-> parsed, issues |-> <<>>,
                   summary |-> [errors |-> 0, warnings |-> 0]]
    IN  IF msg_type \notin DOMAIN rules_all
        THEN NoRulesetReport(report, msg_type_raw)
        ELSE Summarize(report,
                       check_mandatory(parsed, rules_all[msg_type].mandatory_fields)
                           \o RunRules(parsed, rules_all[msg_type].rules)
                           \o ParserChecks(parsed.checks))

ValidateLoaded(rules_all, parsed) ==
    IF Raised(rules_all) THEN rules_all
    ELSE IF Raised(parsed) THEN parsed
    ELSE Ok(ValidateParsed(rules_all.val, parsed.val))

validate_message(inp, rulesFile) ==
    ValidateLoaded(load_rules(rulesFile), detect_and_parse(inp))

(* ------------------------------ sr2026.py ------------------------------ *)

load_sr2026_rules(file) ==
    IF ~file.exists THEN Raise("FileNotFoundError") ELSE Ok(file.doc)

\* _get_field(report, field)
overlay_get_field(report, field) ==
    LET v == DictGet(report.extracted.fields, field)
    IN  IF v = None THEN None ELSE Or(StripVal(v), None)

\* f"{desc}: {message}".strip()
GuidanceMessage(desc, message) ==
    IF message = "" THEN <<desc, ":">> ELSE <<desc, ": ", message>>

overlay_rule(base_report, rule) ==
    LET rtype == rule.type
        rid == Get(rule.id, "SR2026_RULE")
        desc == rule.desc
        severity == Get(rule.severity, "WARN")
    IN  IF rtype = "guidance"
        THEN <<Finding(severity, rid, rule.field, GuidanceMessage(desc, rule.message))>>
        ELSE IF rtype = "in_set"
        THEN LET field == rule.field
                 val == IF Truthy(field) THEN overlay_get_field(base_report, field) ELSE None
             IN  IF val = None
                 THEN <<Finding("ERROR", rid, field, <<desc, " (field missing/empty)">>)>>
                 ELSE IF ~InList(val, rule.allowed)
                 THEN <<Finding("ERROR", rid, field,
                                <<desc, ". Found: ", val, ". Allowed: ">> \o rule.allowed)>>
                 ELSE <<>>
        ELSE <<Finding("WARN", "SR2026_UNKNOWN_RULE", rule.field,
                       <<"Unknown SR2026 rule type: ", Str(rtype), " (", rid, ")">>)>>

RECURSIVE OverlayRules(_, _)
OverlayRules(base_report, rules) ==
    IF rules = <<>> THEN <<>>
    ELSE overlay_rule(base_report, Head(rules)) \o OverlayRules(base_report, Tail(rules))

\* overlay is overlays.get(norm) or {}: <<>> when there is none
apply_overlay_rules(base_report, overlay) ==
    IF overlay = <<>> THEN <<>> ELSE OverlayRules(base_report, overlay.rules)

\* a faulty step 3: the overlay findings come first
AssessReportOverlayFirst(base, overlay_issues) ==
    [sr_mode |-> "SR2026",
     detected_type |-> base.detected_type,
     normalized_type |-> base.normalized_type,
     issues |-> overlay_issues \o base.issues,
     summary |-> [errors |-> CountSeverity(base.issues \o overlay_issues, "ERROR"),
                  warnings |-> CountSeverity(base.issues \o overlay_issues, "WARN")],
     extracted |-> base.extracted]

\* steps 2 and 3 of sr2026_assess: overlay findings appended and counted
AssessReport(base, overlay_issues) ==
    [sr_mode |-> "SR2026",
     detected_type |-> base.detected_type,
     normalized_type |-> base.normalized_type,
     issues |-> base.issues \o overlay_issues,
     summary |-> [errors |-> CountSeverity(base.issues \o overlay_issues, "ERROR"),
                  warnings |-> CountSeverity(base.issues \o overlay_issues, "WARN")],
     extracted |-> base.extracted]

\* overlays.get(norm) or {}
OverlayFor(overlays, norm) == IF norm \in DOMAIN overlays THEN overlays[norm] ELSE <<>>

AssessLoaded(base, sr) ==
    IF Raised(base) THEN base
    ELSE IF Raised(sr) THEN sr
    ELSE Ok(AssessReport(base.val,
                         apply_overlay_rules(base.val,
                                             OverlayFor(sr.val, base.val.normalized_type))))

sr2026_assess(inp, rulesFile, srFile) ==
    AssessLoaded(validate_message(inp, rulesFile), load_sr2026_rules(srFile))

\* the files sr2026_assess reads: every overlay against a few rules files
\* and a few overlays against every rules file
AssessFiles(inp) ==
    (FewRulesFiles \X OverlayFiles(inp)) \cup (RulesFiles(inp) \X FewOverlayFiles)

(* ------------------------------ xsd_validate.py ------------------------ *)
(* xsd is None (no xsd_path), "missing" (the path does not exist) or       *)
(* "schema"; `verdict` is what schema.validate says of a parsed document:  *)
(* the lines of schema.error_log, none when the document is valid.         *)

load_schema(xsd) == IF xsd = "missing" THEN Raise("FileNotFoundError") ELSE Ok(xsd)

validate_xml_against_xsd(inp, xsd, verdict) ==
    LET schema == load_schema(xsd)
    IN  IF Raised(schema) THEN schema
        ELSE IF ~inp.xml.wf THEN Ok([ok |-> FALSE, errs |-> <<"XML_PARSE_ERROR">>])
        ELSE IF verdict = <<>> THEN Ok([ok |-> TRUE, errs |-> <<>>])
        ELSE Ok([ok |-> FALSE, errs |-> verdict])

(* ------------------------------ failure_analyzer.py -------------------- *)

\* the entries of PACS002_CODES the inputs of the model can name
PACS002_CODES ==
    [c \in {"AC04", "AM04", "AG01", "BE04"} |->
        CASE c = "AC04" ->
               [meaning |-> "Account closed",
                checks |-> <<"Creditor account/IBAN in original message correct?",
                             "Is creditor account closed/blocked/dormant at beneficiary bank?",
                             "Was account format changed/mapped incorrectly during MT-MX conversion?">>,
                ask |-> <<"Confirm beneficiary account status and closure date",
                          "Provide beneficiary bank reject details and internal reference">>]
          [] c = "AM04" ->
               [meaning |-> "Insufficient funds",
                checks |-> <<"Is this a return/refund scenario requiring special handling?",
                             "Any limits/overdraft constraints at beneficiary/receiver side?">>,
                ask |-> <<"Confirm where insufficient funds occurred and which account context",
                          "Any overdraft/limit constraints or cut-off timing?">>]
          [] c = "AG01" ->
               [meaning |-> "Transaction forbidden",
                checks |-> <<"Sanctions/AML screening hit?",
                             "Local regulatory/product restriction triggered?",
                             "Purpose/category purpose constraints breached for corridor/scheme?">>,
                ask |-> <<"Which compliance rule triggered? (sanctions/AML/velocity/geo)",
                          "Is additional information required for repair/release?">>]
          [] c = "BE04" ->
               [meaning |-> "Invalid creditor account number",
                checks |-> <<"IBAN/account checksum/length correct?",
                             "Account mapped incorrectly from legacy fields?">>,
                ask |-> <<"Expected account/IBAN format for corridor",
                          "Confirm whether account exists at beneficiary bank">>]]

\* longest list given to _dedupe alone
MaxItems == 4

\* the strings and None a list given to _dedupe holds
DedupeItems == { None, WS, "SHAR", " SHAR", "REF1", " REF1 " }

\* a faulty _dedupe loop: the entries are not trimmed
RECURSIVE DedupeFromUntrimmed(_, _)
DedupeFromUntrimmed(items, seen) ==
    IF items = <<>> THEN <<>>
    ELSE LET x2 == Or(Head(items), "")
         IN  IF x2 # "" /\ x2 \notin seen
             THEN <<x2>> \o DedupeFromUntrimmed(Tail(items), seen \cup {x2})
             ELSE DedupeFromUntrimmed(Tail(items), seen)

RECURSIVE DedupeFrom(_, _)
DedupeFrom(items, seen) ==
    IF items = <<>> THEN <<>>
    ELSE LET x2 == StripVal(Or(Head(items), ""))
         IN  IF x2 # "" /\ x2 \notin seen
             THEN <<x2>> \o DedupeFrom(Tail(items), seen \cup {x2})
             ELSE DedupeFrom(Tail(items), seen)

dedupe(items) == DedupeFrom(items, {})

\* _xml_first_text(root, xpath)
xml_first_text(doc, p) ==
    IF doc.node[p] = None THEN None ELSE Or(StripVal(doc.node[p]), None)

parse_pacs002_details(inp) ==
    IF ~inp.xml.wf
    THEN [msg_type |-> "pacs.002", fields |-> <<>>, checks |-> <<"XML parse failed">>]
    ELSE [msg_type |-> "pacs.002",
          fields |-> [p \in Pacs002Paths |-> xml_first_text(inp.xml, p)],
          checks |-> <<>>]

\* re.search(r"\b([A-Z]{2}\d{2})\b", text)
guess_reason_code_from_text(inp) == inp.scan

extract_uetr_anywhere(inp) == inp.uuid

InsertAt(list, i, x) == SubSeq(list, 1, i) \o <<x>> \o SubSeq(list, i + 1, Len(list))

BaseActions ==
    << "1) Confirm exact status + reason from pacs.002 (GrpSts/TxSts + Rsn/Cd + AddtlInf).",
       "2) Correlate across logs using UETR + OrgnlMsgId/InstrId/EndToEndId (and internal reference).",
       "3) Decide path: REPAIR/RESEND vs RETURN vs CANCEL (camt.056) based on scheme rules and bank procedures.",
       "4) If mapping issue suspected: reproduce in lower env with same payload, fix mapping, then follow controlled prod repair.",
       "5) Record a Jira defect: symptoms, exact code, impacted fields, proposed fix, evidence (logs + message copies)." >>

AccountCaution ==
    "3a) Account issue: confirm beneficiary account details with receiving bank; do NOT resend blindly without correction."

ComplianceCaution ==
    "3a) Forbidden/compliance: involve AML/Compliance; collect required info and follow repair workflow."

\* base.insert(3, x) puts x after the first three items
recommended_actions(code) ==
    LET b1 == IF code \in {"AC04", "BE04"} THEN InsertAt(BaseActions, 3, AccountCaution)
              ELSE BaseActions
    IN  IF code \in {"AG01"} THEN InsertAt(b1, 3, ComplianceCaution) ELSE b1

GenericChecks ==
    << "Capture exact pacs.002 status + reason and additional info",
       "Verify MsgId/InstrId/EndToEndId/UETR consistency across hops" >>

GenericAsks ==
    << "Ask receiving bank for exact rejection reason code and additional info",
       "Ask for their internal reference / investigation ticket number" >>

AlwaysChecks ==
    << "Confirm corridor & scheme rules (CBPR+, local clearing, correspondent chain).",
       "Confirm whether this is REJECT vs RETURN vs REPAIR scenario (procedure differs).",
       "Check sanctions/AML screening hits (names, addresses, countries) if forbidden/blocked hints appear.",
       "If MT-MX conversion involved, verify mapping for account/agent fields and address blocks.",
       "If SR2026 readiness: confirm address structuring/hybrid compliance where applicable." >>

\* a faulty reference line: printed whatever the value
RefLineAlways(label, value) == << <<label, Str(value)>> >>

\* `if value: lines.append(f"- Label: {value}")`
RefLine(label, value) == IF Truthy(value) THEN << <<label, value>> >> ELSE <<>>

\* the parts of the subject, without the blanks str.strip() drops at the end
SubjectParts(status, code, code_meaning) ==
    RStrip(<<"Investigation: Payment status ", Str(status), WS>>
               \o (IF Truthy(code) THEN <<code>> ELSE <<>>) \o <<WS>>
               \o (IF Truthy(code_meaning) THEN <<"- ", code_meaning>> ELSE <<>>))

\* subject and body (a sequence of lines, each a sequence of parts)
build_investigation_email(rep) ==
    [subject |-> SubjectParts(rep.overview.status, rep.overview.reason_code,
                              rep.overview.reason_meaning),
     body |->
        << <<"Hello Team,">>, <<"">>,
           <<"We received a payment status indicating a failure. Please help confirm the exact rejection details and required corrective action.">>,
           <<"">>, <<"Key references:">> >>
        \o RefLine("- UETR: ", rep.overview.uetr)
        \o RefLine("- Original MsgId: ", rep.overview.original_msg_id)
        \o RefLine("- Original InstrId: ", rep.overview.original_instr_id)
        \o RefLine("- Original EndToEndId: ", rep.overview.original_end_to_end_id)
        \o (IF Truthy(rep.overview.reason_code)
            THEN << <<"- Reason code: ", rep.overview.reason_code>>
                      \o (IF Truthy(rep.overview.reason_meaning)
                          THEN <<" (", rep.overview.reason_meaning, ")">> ELSE <<>>) >>
            ELSE <<>>)
        \o RefLine("- Additional info: ", rep.overview.addtl_info)
        \o << <<"">>, <<"Please confirm:">>,
              <<"1) The exact rejection reason and any mandatory data required for repair/re-submission">>,
              <<"2) Whether this should be repaired, returned, or cancelled (per your scheme/corridor rules)">>,
              <<"3) Any internal reference/ticket number for tracking on your side">>,
              <<"">>, <<"Thanks,">>, <<"Operations Team">> >>]

\* rep["investigation_email"] = build_investigation_email(rep)
WithEmail(r) ==
    IF Raised(r) THEN r
    ELSE Ok([overview |-> r.val.overview,
             summary |-> r.val.summary,
             what_to_check |-> r.val.what_to_check,
             what_to_ask_other_bank |-> r.val.what_to_ask_other_bank,
             recommended_next_actions |-> r.val.recommended_next_actions,
             investigation_email |-> build_investigation_email(r.val)])

\* the summary lines: the reason (meaning is None when the table has no
\* entry for the code), then the references to correlate with
FailureSummary(rsn_cd, meaning, uetr, org_msg_id) ==
    (IF meaning # None
     THEN << <<"Reason code ", rsn_cd, ": ", meaning>> >>
     ELSE << <<"Reason code not confidently identified. Prefer pacs.002 <StsRsnInf><Rsn><Cd>/<Prtry> if available.">> >>)
      \o (IF Truthy(uetr)
          THEN << <<"Use UETR to trace across gpi/internal logs: ", uetr>> >> ELSE <<>>)
      \o (IF Truthy(org_msg_id)
          THEN << <<"Correlate using OrgnlMsgId: ", org_msg_id>> >> ELSE <<>>)

\* analyze_failure up to the report without its investigation_email
FailureReport(inp0) ==
    LET inp == [inp0 EXCEPT !.text = Strip(inp0.text)]
        raw == inp.text
        isPacs002 == Contains(raw, "<") /\ Contains(raw, "pacs.002")
        pacs002 == parse_pacs002_details(inp)
        parsedR == detect_and_parse(inp)
    IN  IF Raised(parsedR) THEN parsedR
        ELSE
        LET parsed == parsedR.val
            fields == parsed.fields
            p == pacs002.fields
            P(k) == IF isPacs002 THEN DictGet(p, k) ELSE None
            rsn0 == Or(P("RsnCd"), P("RsnPrtry"))
            status == Or(P("TxSts"), P("GrpSts"))
            org_uetr == Or(P("OrgnlUETR"), P("UETR"))
            rsn_cd == IF ~Truthy(rsn0) THEN guess_reason_code_from_text(inp) ELSE rsn0
            known == Truthy(rsn_cd) /\ rsn_cd \in DOMAIN PACS002_CODES
            uetr == Or(DictGet(fields, "121"),
                       Or(DictGet(fields, "UETR"), Or(org_uetr, extract_uetr_anywhere(inp))))
            org_msg_id == P("OrgnlMsgId")
            overview ==
                [detected_message_type |-> IF isPacs002 THEN pacs002.msg_type ELSE parsed.msg_type,
                 status |-> status,
                 reason_code |-> rsn_cd,
                 reason_meaning |-> IF known THEN PACS002_CODES[rsn_cd].meaning ELSE None,
                 addtl_info |-> P("AddtlInf"),
                 uetr |-> uetr,
                 original_msg_id |-> org_msg_id,
                 original_instr_id |-> P("OrgnlInstrId"),
                 original_end_to_end_id |-> P("OrgnlEndToEndId"),
                 amount_hint |-> Or(DictGet(fields, "IntrBkSttlmAmt"), DictGet(fields, "32A")),
                 currency |-> DictGet(fields, "Ccy"),
                 charges_hint |-> Or(DictGet(fields, "71A"), DictGet(fields, "ChrgBr")),
                 debtor_hint |-> Or(DictGet(fields, "50K"), DictGet(fields, "DbtrNm")),
                 creditor_hint |-> Or(DictGet(fields, "59"), DictGet(fields, "CdtrNm"))]
            checks == (IF known THEN PACS002_CODES[rsn_cd].checks ELSE GenericChecks) \o AlwaysChecks
            asks == IF known THEN PACS002_CODES[rsn_cd].ask ELSE GenericAsks
            summary ==
                FailureSummary(rsn_cd, IF known THEN PACS002_CODES[rsn_cd].meaning ELSE None,
                               uetr, org_msg_id)
        IN  Ok([overview |-> overview,
                summary |-> summary,
                what_to_check |-> dedupe(checks),
                what_to_ask_other_bank |-> dedupe(asks),
                recommended_next_actions |-> recommended_actions(rsn_cd)])

analyze_failure(inp0) == WithEmail(FailureReport(inp0))

\* llm is None (no collaborator), "text" (it answers), "blank" (it answers
\* nothing) or "raises" (llm.invoke fails)
ai_suggestion(llm, overview) ==
    IF llm = "raises" THEN Raise("LLMError")
    ELSE IF llm = "blank" THEN Ok("No AI suggestion generated. Try again.")
    ELSE Ok("suggestion")

(* ------------------------------ autopilot.py: run_autopilot ------------ *)
(* The outcome of run_autopilot: exc (None when it returns), out (the      *)
(* local `out` when it ended: kind and the sections appended so far,       *)
(* returned to the caller only when exc is None) and trace (the engines    *)
(* and collaborators it invoked, in order).  A section's content is the    *)
(* value the pretty-printer renders.                                       *)

\* errs[:50]
XsdShown == 50

Section(title, content) == [title |-> title, content |-> content]

Outcome(exc, kind, sections, trace) ==
    [exc |-> exc, out |-> [kind |-> kind, sections |-> sections], trace |-> trace]

LlmCall(overview) ==
    <<"llm", Str(overview.reason_code), Str(overview.reason_meaning), Str(overview.uetr)>>

Start(kind) == Outcome(None, kind, <<>>, <<>>)

\* one step of a branch: `called` was invoked and gave r; its section is
\* appended unless it raised.  Nothing runs after an exception.
Step(o, called, r, title) ==
    IF o.exc # None THEN o
    ELSE IF Raised(r) THEN Outcome(r.exc, o.out.kind, o.out.sections, o.trace \o <<called>>)
    ELSE Outcome(None, o.out.kind, o.out.sections \o <<Section(title, r.val)>>,
                 o.trace \o <<called>>)

\* a step that runs only with a collaborator
StepIf(cond, o, called, r, title) == IF cond THEN Step(o, called, r, title) ELSE o

\* what the XSD section shows of a verdict
XsdContent(r) ==
    IF Raised(r) THEN r
    ELSE IF r.val.ok THEN Ok(<<"XSD VALID (SR2026 pacs.008)">>)
    ELSE Ok(<<"XSD INVALID (SR2026 pacs.008)">>
                \o SubSeq(r.val.errs, 1,
                          IF Len(r.val.errs) < XsdShown THEN Len(r.val.errs) ELSE XsdShown))

\* rep["overview"] of a report that was returned
OverviewOf(rep) == IF Raised(rep) THEN rep ELSE rep.val.overview

AiStep(o, llm, overview) ==
    StepIf(llm # None /\ o.exc = None, o, LlmCall(overview),
           ai_suggestion(llm, overview), "AI_SUGGESTIONS")

\* the branch of pacs002_xml and of incident_text
FailureSteps(kind, llm, rep) ==
    AiStep(Step(Start(kind), <<"analyze_failure">>, rep, "FAILURE_ANALYSIS"),
           llm, OverviewOf(rep))

\* a faulty branch: the base rules are validated too
FailureBranchWithRules(kind, inp, llm) ==
    AiStep(Step(Step(Start(kind), <<"analyze_failure">>, analyze_failure(inp),
                     "FAILURE_ANALYSIS"),
                <<"validate_message">>, validate_message(inp, EmptyFile), "RULES_VALIDATE"),
           llm, OverviewOf(analyze_failure(inp)))

FailureBranch(kind, inp, llm) == FailureSteps(kind, llm, analyze_failure(inp))

SummaryLike(inp) ==
    [reason_code |-> "VALIDATION_FINDINGS",
     reason_meaning |-> "XSD/SR2026/Rules findings detected",
     uetr |-> inp.uuid]

\* a faulty branch: the base rules section comes before the overlay section
Pacs008BranchRulesFirst(kind, inp, llm, xsd, verdict, rulesFile, srFile) ==
    AiStep(
        Step(
            Step(
                StepIf(xsd # None, Start(kind), <<"xsd">>,
                       XsdContent(validate_xml_against_xsd(inp, xsd, verdict)), "XSD"),
                <<"validate_message">>, validate_message(inp, rulesFile), "RULES_VALIDATE"),
            <<"sr2026_assess">>, sr2026_assess(inp, rulesFile, srFile), "SR2026"),
        llm, SummaryLike(inp))

Pacs008Branch(kind, inp, llm, xsd, verdict, rulesFile, srFile) ==
    AiStep(
        Step(
            Step(
                StepIf(xsd # None, Start(kind), <<"xsd">>,
                       XsdContent(validate_xml_against_xsd(inp, xsd, verdict)), "XSD"),
                <<"sr2026_assess">>, sr2026_assess(inp, rulesFile, srFile), "SR2026"),
            <<"validate_message">>, validate_message(inp, rulesFile), "RULES_VALIDATE"),
        llm, SummaryLike(inp))

\* a faulty note: the section is appended twice
NoteTwice(o, title, text) ==
    IF o.exc # None THEN o
    ELSE Outcome(None, o.out.kind,
                 o.out.sections \o <<Section(title, text), Section(title, text)>>, o.trace)

\* out["sections"].append((title, text)) of a fixed text
Note(o, title, text) ==
    IF o.exc # None THEN o
    ELSE Outcome(None, o.out.kind, o.out.sections \o <<Section(title, text)>>, o.trace)

MtBranch(kind, inp, rulesFile) ==
    Note(Step(Start(kind), <<"validate_message">>, validate_message(inp, rulesFile),
              "RULES_VALIDATE"),
         "SR2026",
         "SR2026 mainly applies to MX/CBPR+ usage. For MT, focus on MX readiness & mapping tests.")

run_autopilot(inp, llm, xsd, verdict, rulesFile, srFile) ==
    LET kind == detect_input_kind(inp.text)
    IN  IF kind = "command"
        THEN Note(Start(kind), "INFO", "Detected explicit command. Autopilot skipped.")
        ELSE IF kind = "pacs002_xml" THEN FailureBranch(kind, inp, llm)
        ELSE IF kind = "pacs008_xml"
        THEN Pacs008Branch(kind, inp, llm, xsd, verdict, rulesFile, srFile)
        ELSE IF kind = "mt_like" THEN MtBranch(kind, inp, rulesFile)
        ELSE IF kind = "incident_text" THEN FailureBranch(kind, inp, llm)
        ELSE Note(Start(kind), "INFO",
                  "Looks like a normal question. Route to RAG / knowledge-base answer.")

Llms == { None, "text", "blank", "raises" }

Xsds == { None, "missing", "schema" }

\* what schema.validate can say of an input: nothing to say of one that
\* does not parse
Verdicts(inp, xsd) ==
    IF xsd = "schema" /\ inp.xml.wf
    THEN { <<>>, <<"Line 1, Col 1: element not expected">> }
    ELSE { <<>> }

\* the collaborators and files of a call: the ones its branch uses vary
AutopilotArgs(inp) ==
    LET kind == detect_input_kind(inp.text)
        llms == IF kind \in {"pacs002_xml", "pacs008_xml", "incident_text"}
                THEN Llms ELSE {None, "text"}
        xsds == IF kind = "pacs008_xml" THEN Xsds ELSE {None, "schema"}
        rfs == IF kind \in {"pacs008_xml", "mt_like"} THEN FewRulesFiles ELSE {EmptyFile}
        sfs == IF kind = "pacs008_xml" THEN FewOverlayFiles ELSE {EmptyFile}
    IN  UNION { { [llm |-> l, xsd |-> x, verdict |-> v, rules |-> rf, sr |-> sf] :
                    l \in llms, v \in Verdicts(inp, x), rf \in rfs, sf \in sfs } : x \in xsds }

(* ------------------------------ requests in progress ------------------ *)
(* The lists a request builds are objects: a statement that extends a list *)
(* changes the object its variable refers to.  A reference is either to a  *)
(* list of the request itself (its locals `checks` and `asks`) or to a     *)
(* list held by an entry of the shared table.                              *)

\* most requests in progress at once
MaxRequests == 2

Slots == 1..MaxRequests

\* a reference to a list of the request itself
OwnList == [shared |-> FALSE, code |-> None, key |-> None]

\* a reference to the list PACS002_CODES[code][key]
EntryList(code, key) == [shared |-> TRUE, code |-> code, key |-> key]

\* what a statement acts on: the shared table and the locals of its request
Store(table, r) == [codes |-> table, r |-> r]

\* the list a reference leads to (name: the local, when it is the request's)
ListAt(st, ref, name) == IF ref.shared THEN st.codes[ref.code][ref.key] ELSE st.r[name]

\* list.extend(items) through a reference
Extend(st, ref, name, items) ==
    IF ref.shared
    THEN [st EXCEPT !.codes[ref.code][ref.key] = @ \o items]
    ELSE [st EXCEPT !.r[name] = @ \o items]

\* a faulty binding: the variable is bound to the list of the table's entry
NewListAliased(r, key) ==
    IF r.code_info # None THEN EntryList(r.code_info, key) ELSE OwnList

\* `checks: List[str] = []`: the variable is bound to a new list of the
\* request (key: the entry key the list is then filled from)
NewList(r, key) == OwnList

\* a slot with no request
NoRequest ==
    [op |-> "idle", pc |-> "idle", inp |-> <<>>, llm |-> None,
     rules |-> EmptyFile, sr |-> EmptyFile,
     code_info |-> None, meaning |-> None,
     checksAt |-> OwnList, asksAt |-> OwnList, checks |-> <<>>, asks |-> <<>>,
     result |-> Ok(None)]

\* the inputs of the requests: status reports with a known and an unknown
\* reason code, an incident note, a truncated status report, a legacy
\* message and a credit transfer
StatusInput(cd) ==
    [text |-> <<"<", "pacs.002", ">">>, xml |-> StatusDoc(cd, None, "all"),
     mt |-> NoCaptures, uuid |-> SampleUuid,
     scan |-> IF cd \in ScanTokens THEN cd ELSE None]

IncidentInput ==
    [text |-> <<"reject", "AC04">>, xml |-> MalformedXml, mt |-> NoCaptures,
     uuid |-> None, scan |-> "AC04"]

TruncatedInput ==
    [text |-> TruncatedStatus, xml |-> MalformedXml, mt |-> NoCaptures,
     uuid |-> SampleUuid, scan |-> None]

MtInput ==
    [text |-> <<":20:", ":32A:">>, xml |-> MalformedXml,
     mt |-> [NoCaptures EXCEPT !["20"] = " REF1 ", !["32A"] = "250101USD1000,00"],
     uuid |-> None, scan |-> None]

CreditInput ==
    [text |-> <<"<", "pacs.008", ">">>, xml |-> CreditDoc(" SHAR", "USD"),
     mt |-> NoCaptures, uuid |-> None, scan |-> None]

FailureInputs == { StatusInput("AC04"), StatusInput("NARR"), IncidentInput, TruncatedInput }

MessageInputs == { MtInput, CreditInput }

(* ------------------------------ state machine -------------------------- *)

Idle == [op |-> "idle"]

Init ==
    /\ call = Idle
    /\ result = Ok(None)
    /\ codes = PACS002_CODES
    /\ reqs = [s \in Slots |-> NoRequest]

DetectInputKind ==
    /\ call = Idle
    /\ \E t \in KindTexts :
        /\ call' = [op |-> "detect_input_kind", text |-> t]
        /\ result' = Ok(detect_input_kind(t))
    /\ UNCHANGED <<codes, reqs>>

DetectAndParse ==
    /\ call = Idle
    /\ \E inp \in Inputs :
        /\ call' = [op |-> "detect_and_parse", inp |-> inp]
        /\ result' = detect_and_parse(inp)
    /\ UNCHANGED <<codes, reqs>>

ValidateMessage ==
    /\ call = Idle
    /\ \E inp \in Inputs : \E rf \in RulesFiles(inp) :
        /\ call' = [op |-> "validate_message", inp |-> inp, rules |-> rf]
        /\ result' = validate_message(inp, rf)
    /\ UNCHANGED <<codes, reqs>>

Sr2026Assess ==
    /\ call = Idle
    /\ \E inp \in Inputs : \E fs \in AssessFiles(inp) :
        /\ call' = [op |-> "sr2026_assess", inp |-> inp, rules |-> fs[1], sr |-> fs[2]]
        /\ result' = sr2026_assess(inp, fs[1], fs[2])
    /\ UNCHANGED <<codes, reqs>>

AnalyzeFailure ==
    /\ call = Idle
    /\ \E inp \in Inputs :
        /\ call' = [op |-> "analyze_failure", inp |-> inp]
        /\ result' = analyze_failure(inp)
    /\ UNCHANGED <<codes, reqs>>

RunAutopilot ==
    /\ call = Idle
    /\ \E inp \in Inputs : \E a \in AutopilotArgs(inp) :
        /\ call' = [op |-> "run_autopilot", inp |-> inp, llm |-> a.llm, xsd |-> a.xsd,
                    verdict |-> a.verdict, rules |-> a.rules, sr |-> a.sr]
        /\ result' = run_autopilot(inp, a.llm, a.xsd, a.verdict, a.rules, a.sr)
    /\ UNCHANGED <<codes, reqs>>

Dedupe ==
    /\ call = Idle
    /\ \E xs \in SeqsUpTo(DedupeItems, MaxItems) :
        /\ call' = [op |-> "_dedupe", items |-> xs]
        /\ result' = Ok(dedupe(xs))
    /\ UNCHANGED <<codes, reqs>>

Return ==
    /\ call # Idle
    /\ call' = Idle
    /\ result' = Ok(None)
    /\ UNCHANGED <<codes, reqs>>

Next == DetectInputKind \/ DetectAndParse \/ ValidateMessage \/ Sr2026Assess
          \/ AnalyzeFailure \/ RunAutopilot \/ Dedupe \/ Return

Spec == Init /\ [][Next]_vars

(* ------------------------------ concurrent requests -------------------- *)
(* Up to MaxRequests requests run at once.  validate_message and           *)
(* sr2026_assess name no object outside their call and take one step.      *)
(* analyze_failure takes a step per group of statements that reads or      *)
(* writes a list: the lookup of the reason code (lines 352-408), the       *)
(* collection of checks and asks (410-427), the always-applicable checks   *)
(* (429-436) and the report (438-452).  run_autopilot takes the steps of   *)
(* analyze_failure on the kinds it hands to it, one step otherwise.        *)

\* the request a free slot takes
Accepted(op, inp, llm, pc, r) ==
    [NoRequest EXCEPT !.op = op, !.inp = inp, !.llm = llm, !.rules = SampleRulesFile,
                      !.sr = SampleOverlayFile, !.pc = pc, !.result = r]

CallValidate ==
    \E s \in Slots : \E inp \in MessageInputs :
        /\ reqs[s].pc = "idle"
        /\ reqs' = [reqs EXCEPT ![s] =
                        Accepted("validate_message", inp, None, "done",
                                 validate_message(inp, SampleRulesFile))]
        /\ UNCHANGED <<call, result, codes>>

CallAssess ==
    \E s \in Slots : \E inp \in MessageInputs :
        /\ reqs[s].pc = "idle"
        /\ reqs' = [reqs EXCEPT ![s] =
                        Accepted("sr2026_assess", inp, None, "done",
                                 sr2026_assess(inp, SampleRulesFile, SampleOverlayFile))]
        /\ UNCHANGED <<call, result, codes>>

CallAnalyze ==
    \E s \in Slots : \E inp \in FailureInputs :
        /\ reqs[s].pc = "idle"
        /\ reqs' = [reqs EXCEPT ![s] =
                        Accepted("analyze_failure", inp, None, "lookup", Ok(None))]
        /\ UNCHANGED <<call, result, codes>>

CallAutopilot ==
    \E s \in Slots : \E inp \in FailureInputs \cup MessageInputs : \E llm \in {None, "text"} :
        /\ reqs[s].pc = "idle"
        /\ reqs' = [reqs EXCEPT ![s] =
              IF detect_input_kind(inp.text) \in {"pacs002_xml", "incident_text"}
              THEN Accepted("run_autopilot", inp, llm, "lookup", Ok(None))
              ELSE Accepted("run_autopilot", inp, llm, "done",
                            run_autopilot(inp, llm, None, <<>>,
                                          SampleRulesFile, SampleOverlayFile))]
        /\ UNCHANGED <<call, result, codes>>

\* what the request gives its caller once analyze_failure ended with rep
Finish(r, rep) ==
    IF r.op = "analyze_failure" THEN WithEmail(rep)
    ELSE FailureSteps(detect_input_kind(r.inp.text), r.llm, WithEmail(rep))

\* lines 352-408: parse, resolve the reason code, code_info = PACS002_CODES.get(rsn_cd)
AnalyzeLookup ==
    \E s \in Slots :
        LET r == reqs[s]
            rep == FailureReport(r.inp)
        IN  /\ r.pc = "lookup"
            /\ reqs' = [reqs EXCEPT ![s] =
                  IF Raised(rep)
                  THEN [r EXCEPT !.pc = "done", !.result = Finish(r, rep)]
                  ELSE LET rsn_cd == rep.val.overview.reason_code
                           found == Truthy(rsn_cd) /\ rsn_cd \in DOMAIN codes
                       IN  [r EXCEPT !.pc = "collect",
                                     !.code_info = IF found THEN rsn_cd ELSE None,
                                     !.meaning = IF found THEN codes[rsn_cd].meaning ELSE None]]
            /\ UNCHANGED <<call, result, codes>>

\* lines 410-427: checks = [], asks = [], extended from the entry or from
\* the generic lists
AnalyzeCollect ==
    \E s \in Slots :
        LET r == reqs[s]
            r1 == [r EXCEPT !.checksAt = NewList(r, "checks"), !.asksAt = NewList(r, "ask")]
            st1 == Extend(Store(codes, r1), r1.checksAt, "checks",
                          IF r.code_info # None THEN codes[r.code_info].checks
                          ELSE GenericChecks)
            st2 == Extend(st1, r1.asksAt, "asks",
                          IF r.code_info # None THEN st1.codes[r.code_info].ask
                          ELSE GenericAsks)
        IN  /\ r.pc = "collect"
            /\ codes' = st2.codes
            /\ reqs' = [reqs EXCEPT ![s] = [st2.r EXCEPT !.pc = "always"]]
            /\ UNCHANGED <<call, result>>

\* lines 429-436: checks.extend([...])
AnalyzeAlways ==
    \E s \in Slots :
        LET r == reqs[s]
            st == Extend(Store(codes, r), r.checksAt, "checks", AlwaysChecks)
        IN  /\ r.pc = "always"
            /\ codes' = st.codes
            /\ reqs' = [reqs EXCEPT ![s] = [st.r EXCEPT !.pc = "build"]]
            /\ UNCHANGED <<call, result>>

\* the report of lines 438-452 from what the request holds
BuiltReport(table, r) ==
    LET o == FailureReport(r.inp).val.overview
        st == Store(table, r)
    IN  Ok([overview |-> [o EXCEPT !.reason_meaning = r.meaning],
            summary |-> FailureSummary(o.reason_code, r.meaning, o.uetr, o.original_msg_id),
            what_to_check |-> dedupe(ListAt(st, r.checksAt, "checks")),
            what_to_ask_other_bank |-> dedupe(ListAt(st, r.asksAt, "asks")),
            recommended_next_actions |-> recommended_actions(o.reason_code)])

AnalyzeBuild ==
    \E s \in Slots :
        LET r == reqs[s]
        IN  /\ r.pc = "build"
            /\ reqs' = [reqs EXCEPT ![s] =
                            [r EXCEPT !.pc = "done", !.result = Finish(r, BuiltReport(codes, r))]]
            /\ UNCHANGED <<call, result, codes>>

\* the caller has the outcome; the locals of the request are gone
Respond ==
    \E s \in Slots :
        /\ reqs[s].pc = "done"
        /\ reqs' = [reqs EXCEPT ![s] = NoRequest]
        /\ UNCHANGED <<call, result, codes>>

NextRequests ==
    CallValidate \/ CallAssess \/ CallAnalyze \/ CallAutopilot
        \/ AnalyzeLookup \/ AnalyzeCollect \/ AnalyzeAlways \/ AnalyzeBuild \/ Respond

SpecRequests == Init /\ [][NextRequests]_vars

(* ------------------------------ properties ----------------------------- *)
(* Each property speaks of the call in `call` and of its outcome in        *)
(* `result`, so it is an invariant over every call of the operation; the   *)
(* property of the shared table speaks of `codes` and of the requests in   *)
(* `reqs`, under SpecRequests.                                             *)

MsgKinds == { "MT103", "pacs.008", "unknown" }

\* C1: detect_and_parse is total: for every input it returns a parsed
\* record without raising, and the record's msg_type is MT103, pacs.008 or
\* unknown.
C1_ExtractionTotal ==
    call.op = "detect_and_parse" =>
        /\ ~Raised(result)
        /\ result.val.msg_type \in MsgKinds

\* C2: run_autopilot never raises: for every input it returns a result
\* with at least one section.
C2_AutopilotTotal ==
    call.op = "run_autopilot" =>
        /\ result.exc = None
        /\ Len(result.out.sections) >= 1

\* absent, empty or whitespace-only
Blank(v) == v \in { None, "", WS }

HasMissingMandatory(issues, f) ==
    \E j \in DOMAIN issues :
        /\ issues[j].severity = "ERROR"
        /\ issues[j].code = "MISSING_MANDATORY"
        /\ issues[j].field = f

\* the ruleset validate_message applies in the current call
RulesetOfCall == call.rules.doc[result.val.normalized_type]

ValidatedWithRuleset ==
    /\ call.op = "validate_message"
    /\ ~Raised(result)
    /\ result.val.normalized_type \in DOMAIN call.rules.doc

\* C3: whenever validate_message applies a ruleset, every mandatory field
\* of the ruleset that is absent, empty or blank in the extracted fields has
\* an ERROR finding MISSING_MANDATORY naming that field, whatever rules the
\* ruleset declares.
C3_MandatoryMissing ==
    ValidatedWithRuleset =>
        \A i \in DOMAIN RulesetOfCall.mandatory_fields :
            LET f == RulesetOfCall.mandatory_fields[i]
            IN  Blank(DictGet(detect_and_parse(call.inp).val.fields, f))
                    => HasMissingMandatory(result.val.issues, f)

\* a call with two mandatory fields, one absent and under a pattern rule,
\* the other extracted as the empty string
C3_Witness ==
    /\ ValidatedWithRuleset
    /\ \E i, j \in DOMAIN RulesetOfCall.mandatory_fields :
        LET f == RulesetOfCall.mandatory_fields[i]
            g == RulesetOfCall.mandatory_fields[j]
            fields == result.val.extracted.fields
        IN  /\ DictGet(fields, f) = None
            /\ DictGet(fields, g) = ""
            /\ \E k \in DOMAIN RulesetOfCall.rules :
                /\ RulesetOfCall.rules[k].type = "regex_field"
                /\ RulesetOfCall.rules[k].field = f
            /\ HasMissingMandatory(result.val.issues, f)
            /\ HasMissingMandatory(result.val.issues, g)

AssessReturned == call.op = "sr2026_assess" /\ ~Raised(result)

\* the base report and the overlay findings of the current sr2026_assess call
BaseOfCall == validate_message(call.inp, call.rules).val

OverlayIssuesOfCall ==
    apply_overlay_rules(BaseOfCall,
                        OverlayFor(load_sr2026_rules(call.sr).val, BaseOfCall.normalized_type))

\* C4: the findings of sr2026_assess are the findings of validate_message
\* on the same input followed by the findings of apply_overlay_rules on the
\* same extracted fields: no base finding is removed, altered or moved.
C4_OverlayAdditivity ==
    AssessReturned =>
        /\ ~Raised(validate_message(call.inp, call.rules))
        /\ result.val.issues = BaseOfCall.issues \o OverlayIssuesOfCall

\* a call with base findings and overlay findings that differ
C4_Witness ==
    /\ AssessReturned
    /\ Len(BaseOfCall.issues) >= 2
    /\ Len(OverlayIssuesOfCall) >= 1
    /\ BaseOfCall.issues \o OverlayIssuesOfCall # OverlayIssuesOfCall \o BaseOfCall.issues
    /\ result.val.issues = BaseOfCall.issues \o OverlayIssuesOfCall

\* the call loaded rules that have no entry for the message's normalized type
NoRulesetCase ==
    /\ call.op = "validate_message"
    /\ call.rules.exists
    /\ ~Raised(detect_and_parse(call.inp))
    /\ normalize_msg_type(detect_and_parse(call.inp).val.msg_type) \notin DOMAIN call.rules.doc

\* C5: when the loaded base rules have no entry for the normalized message
\* type, validate_message returns, and the findings are exactly one WARN
\* finding NO_RULESET, with zero errors counted.
C5_NoRuleset ==
    NoRulesetCase =>
        /\ ~Raised(result)
        /\ Len(result.val.issues) = 1
        /\ result.val.issues[1].severity = "WARN"
        /\ result.val.issues[1].code = "NO_RULESET"
        /\ result.val.summary.errors = 0

\* a credit transfer validated against rules that only know MT103
C5_Witness ==
    /\ NoRulesetCase
    /\ detect_and_parse(call.inp).val.msg_type = "pacs.008"
    /\ DOMAIN call.rules.doc = {"mt103"}
    /\ result.val.issues[1].code = "NO_RULESET"

RECURSIVE NumberOf(_, _)
NumberOf(issues, sev) ==
    IF issues = <<>> THEN 0
    ELSE (IF Head(issues).severity = sev THEN 1 ELSE 0) + NumberOf(Tail(issues), sev)

ReportReturned == call.op \in {"validate_message", "sr2026_assess"} /\ ~Raised(result)

\* C6: in every report validate_message or sr2026_assess returns,
\* summary.errors is the number of ERROR findings and summary.warnings the
\* number of WARN findings of that report.
C6_CountsExact ==
    ReportReturned =>
        /\ result.val.summary.errors = NumberOf(result.val.issues, "ERROR")
        /\ result.val.summary.warnings = NumberOf(result.val.issues, "WARN")

\* an overlay report whose overlay findings changed both counts
C6_Witness ==
    /\ AssessReturned
    /\ result.val.summary.errors > NumberOf(BaseOfCall.issues, "ERROR")
    /\ result.val.summary.warnings > NumberOf(BaseOfCall.issues, "WARN")
    /\ NumberOf(BaseOfCall.issues, "ERROR") >= 1

\* the conditions of the classification, on the trimmed text of the call
Trimmed == Strip(call.text)

IsCommand == \E c \in CommandPrefixes : StartsWith(Lower(Trimmed), c)

IsXml == Contains(Trimmed, "<") /\ Contains(Trimmed, ">") /\ StartsWith(Trimmed, "<")

HasStatusMarker ==
    Contains(Lower(Trimmed), "pacs.002") \/ Contains(Lower(Trimmed), "fitofipmtstsrpt")

HasCreditMarker ==
    Contains(Lower(Trimmed), "pacs.008") \/ Contains(Lower(Trimmed), "fitoficstmrcdttrf")

IsMt ==
    Contains(Trimmed, ":20:") /\ (Contains(Trimmed, ":32A:") \/ Contains(Trimmed, ":23B:"))

IsIncident == \E k \in IncidentKeywords : Contains(Lower(Trimmed), k)

\* C7: detect_input_kind is first-match-wins in the order command,
\* pacs002_xml, pacs008_xml, xml_other, mt_like, incident_text, free_text:
\* the kind is that of the first condition that holds, whatever later
\* conditions hold too.
C7_FirstMatchWins ==
    call.op = "detect_input_kind" =>
        /\ ~Raised(result)
        /\ IsCommand => result.val = "command"
        /\ ~IsCommand /\ IsXml /\ HasStatusMarker => result.val = "pacs002_xml"
        /\ ~IsCommand /\ IsXml /\ ~HasStatusMarker /\ HasCreditMarker
                => result.val = "pacs008_xml"
        /\ ~IsCommand /\ IsXml /\ ~HasStatusMarker /\ ~HasCreditMarker
                => result.val = "xml_other"
        /\ ~IsCommand /\ ~IsXml /\ IsMt => result.val = "mt_like"
        /\ ~IsCommand /\ ~IsXml /\ ~IsMt /\ IsIncident => result.val = "incident_text"
        /\ ~IsCommand /\ ~IsXml /\ ~IsMt /\ ~IsIncident => result.val = "free_text"

\* an XML payload with both markers, in upper case, classified as a status
\* report
C7_Witness ==
    /\ call.op = "detect_input_kind"
    /\ IsXml /\ HasStatusMarker /\ HasCreditMarker
    /\ Contains(Trimmed, "PACS.008")
    /\ result.val = "pacs002_xml"

\* which parser detect_and_parse chose: only parse_pacs008 raises
DetectedAs == IF Raised(result) THEN "pacs.008" ELSE result.val.msg_type

\* C8: detect_and_parse detects a credit transfer only if the trimmed text
\* starts with "<" and holds the marker pacs.008; otherwise a text with
\* ":20:" and ":32A:" is legacy text (MT103), whatever its values hold;
\* otherwise the text is unknown.
C8_DetectionPolicy ==
    call.op = "detect_and_parse" =>
        DetectedAs =
            IF StartsWith(Strip(call.inp.text), "<") /\ Contains(call.inp.text, "pacs.008")
            THEN "pacs.008"
            ELSE IF Contains(call.inp.text, ":20:") /\ Contains(call.inp.text, ":32A:")
            THEN "MT103"
            ELSE "unknown"

KindOfCall == detect_input_kind(call.inp.text)

\* a collaborator of the call's branch fails
CollaboratorFails ==
    \/ KindOfCall = "pacs008_xml" /\ call.xsd = "missing"
    \/ KindOfCall \in {"pacs002_xml", "pacs008_xml", "incident_text"} /\ call.llm = "raises"

\* the engines of the call's branch all return
EnginesReturn ==
    IF KindOfCall = "pacs008_xml"
    THEN /\ ~Raised(sr2026_assess(call.inp, call.rules, call.sr))
         /\ ~Raised(validate_message(call.inp, call.rules))
    ELSE ~Raised(analyze_failure(call.inp))

Titles(sections) == [i \in DOMAIN sections |-> sections[i].title]

\* the sections of a branch, one per engine and configured collaborator
SectionsDue ==
    IF KindOfCall = "pacs008_xml"
    THEN (IF call.xsd # None THEN <<"XSD">> ELSE <<>>)
            \o <<"SR2026", "RULES_VALIDATE">>
            \o (IF call.llm # None THEN <<"AI_SUGGESTIONS">> ELSE <<>>)
    ELSE <<"FAILURE_ANALYSIS">> \o (IF call.llm # None THEN <<"AI_SUGGESTIONS">> ELSE <<>>)

\* C9: when the schema validator or the llm of run_autopilot fails while
\* the engines work, the call does not raise and every section of the
\* branch is still produced, in order (the failed one as a placeholder).
C9_CollaboratorIsolation ==
    (call.op = "run_autopilot" /\ CollaboratorFails /\ EnginesReturn) =>
        /\ result.exc = None
        /\ Titles(result.out.sections) = SectionsDue

IsPrefix(s, t) == Len(s) <= Len(t) /\ s = SubSeq(t, 1, Len(s))

\* C10: for an input of kind pacs008_xml the sections of run_autopilot are,
\* in this order, XSD (iff an xsd_path is given), SR2026, RULES_VALIDATE and
\* AI_SUGGESTIONS (iff an llm is given, and then the llm is fed an overview
\* whose reason code is VALIDATION_FINDINGS), and no others; a call that
\* stops early has emitted a prefix of them.
C10_Pacs008Sections ==
    (call.op = "run_autopilot" /\ KindOfCall = "pacs008_xml") =>
        /\ IsPrefix(Titles(result.out.sections), SectionsDue)
        /\ result.exc = None => Titles(result.out.sections) = SectionsDue
        /\ \A i \in DOMAIN result.trace :
              result.trace[i][1] = "llm" =>
                  /\ call.llm # None
                  /\ i = Len(result.trace)
                  /\ result.trace[i][2] = "VALIDATION_FINDINGS"
        /\ (result.exc = None /\ call.llm # None)
              => result.trace[Len(result.trace)][1] = "llm"

\* a well-formed credit transfer with both collaborators: four sections
C10_Witness ==
    /\ call.op = "run_autopilot"
    /\ KindOfCall = "pacs008_xml"
    /\ call.inp.xml.wf /\ Contains(call.inp.text, "pacs.008")
    /\ call.xsd # None /\ call.llm # None
    /\ result.exc = None
    /\ Titles(result.out.sections) = <<"XSD", "SR2026", "RULES_VALIDATE", "AI_SUGGESTIONS">>
    /\ result.trace[4][2] = "VALIDATION_FINDINGS"

FailureKinds == { "pacs002_xml", "incident_text" }

\* C11: for an input of kind pacs002_xml or incident_text, run_autopilot
\* invokes the failure classifier and, with an llm, the llm, nothing else;
\* its sections are one FAILURE_ANALYSIS, then one AI_SUGGESTIONS iff an
\* llm is given; a call that stops early has emitted a prefix of them.
C11_FailureOnly ==
    (call.op = "run_autopilot" /\ KindOfCall \in FailureKinds) =>
        /\ IsPrefix(Titles(result.out.sections), SectionsDue)
        /\ result.exc = None => Titles(result.out.sections) = SectionsDue
        /\ Len(result.trace) >= 1
        /\ result.trace[1] = <<"analyze_failure">>
        /\ \A i \in DOMAIN result.trace :
              i > 1 => /\ result.trace[i][1] = "llm"
                       /\ i = 2
                       /\ call.llm # None

\* a well-formed status report analysed with an llm
C11_Witness ==
    /\ call.op = "run_autopilot"
    /\ KindOfCall = "pacs002_xml"
    /\ call.inp.xml.wf
    /\ call.llm = "text"
    /\ result.exc = None
    /\ Titles(result.out.sections) = <<"FAILURE_ANALYSIS", "AI_SUGGESTIONS">>
    /\ result.trace[2][1] = "llm"

\* C12: for an input of kind command or free_text, run_autopilot returns
\* exactly one section, titled INFO, and invokes no engine and no
\* collaborator.
C12_InfoOnly ==
    (call.op = "run_autopilot" /\ KindOfCall \in {"command", "free_text"}) =>
        /\ result.exc = None
        /\ Titles(result.out.sections) = <<"INFO">>
        /\ result.trace = <<>>

\* a free-text question asked with an llm and an XSD path configured
C12_Witness ==
    /\ call.op = "run_autopilot"
    /\ KindOfCall = "free_text"
    /\ call.llm # None /\ call.xsd # None
    /\ result.exc = None
    /\ Len(result.out.sections) = 1
    /\ result.out.sections[1].title = "INFO"

\* analyze_failure returned the report of a well-formed status report (an
\* input the classifier calls pacs002_xml)
StatusReportAnalysed ==
    /\ call.op = "analyze_failure"
    /\ detect_input_kind(call.inp.text) = "pacs002_xml"
    /\ call.inp.xml.wf
    /\ ~Raised(result)

\* what the document carries under Rsn/Cd and Rsn/Prtry
CodedReason == xml_first_text(call.inp.xml, "RsnCd")

ProprietaryReason == xml_first_text(call.inp.xml, "RsnPrtry")

\* C13: the resolved reason code of a status report is its Rsn/Cd when it
\* has one, else its Rsn/Prtry when it has one, and the first token the
\* free-text scan finds only when the document has neither.
C13_ReasonOrder ==
    StatusReportAnalysed =>
        result.val.overview.reason_code =
            IF Truthy(CodedReason) THEN CodedReason
            ELSE IF Truthy(ProprietaryReason) THEN ProprietaryReason
            ELSE call.inp.scan

KnownCode(v) == Truthy(v) /\ v \in DOMAIN PACS002_CODES

\* a status-report input with a UETR whose reason code, structured or
\* scanned, is missing or not in the knowledge table
UnknownReasonWithUetr ==
    /\ call.op = "analyze_failure"
    /\ detect_input_kind(call.inp.text) = "pacs002_xml"
    /\ ~KnownCode(CodedReason) /\ ~KnownCode(ProprietaryReason)
    /\ ~KnownCode(call.inp.scan)
    /\ call.inp.uuid # None

NotIdentifiedLine ==
    <<"Reason code not confidently identified. Prefer pacs.002 <StsRsnInf><Rsn><Cd>/<Prtry> if available.">>

\* what analyze_failure says of an unknown reason code
GenericReport(rep) ==
    /\ rep.overview.reason_meaning = None
    /\ rep.summary[1] = NotIdentifiedLine
    /\ IsPrefix(GenericChecks, rep.what_to_check)
    /\ rep.what_to_ask_other_bank = GenericAsks
    /\ \E i \in DOMAIN rep.summary :
          rep.summary[i] = <<"Use UETR to trace across gpi/internal logs: ", call.inp.uuid>>

\* C14: for a status-report input with a UETR and a missing or unknown
\* reason code, analyze_failure returns without raising; reason_meaning is
\* None, the summary starts with the 'not confidently identified' line, the
\* generic checks and questions are used, and the summary has a
\* correlation line with the UETR.
C14_UnknownReason ==
    UnknownReasonWithUetr => ~Raised(result) /\ GenericReport(result.val)

\* the generic actions that speak of repairing or resending the payment
ResendActions == { BaseActions[3], BaseActions[4] }

\* analyze_failure returned the report of a status report with Rsn/Cd AC04
Ac04Analysed == StatusReportAnalysed /\ CodedReason = "AC04"

\* C15: for a status report with reason code AC04, reason_meaning
\* is the knowledge-table meaning of AC04 and, in recommended_next_actions,
\* the caution 'do NOT resend blindly' comes before every generic action
\* that speaks of repair or resend.
C15_CautionFirst ==
    Ac04Analysed =>
        LET actions == result.val.recommended_next_actions
        IN  /\ result.val.overview.reason_meaning = PACS002_CODES["AC04"].meaning
            /\ \E i \in DOMAIN actions :
                /\ actions[i] = AccountCaution
                /\ \A j \in DOMAIN actions : actions[j] \in ResendActions => i < j

NoDuplicates(list) == \A i, j \in DOMAIN list : list[i] = list[j] => i = j

\* C16: what_to_check starts with the always-applicable checks, the
\* code-specific checks come after them, and no entry occurs twice.
C16_AlwaysChecksFirst ==
    (call.op = "analyze_failure" /\ ~Raised(result)) =>
        /\ IsPrefix(AlwaysChecks, result.val.what_to_check)
        /\ NoDuplicates(result.val.what_to_check)

\* the reference lines of the investigation message and the overview field
\* each prints
RefLabels ==
    { "- UETR: ", "- Original MsgId: ", "- Original InstrId: ",
      "- Original EndToEndId: ", "- Reason code: ", "- Additional info: " }

RefField(o, label) ==
    CASE label = "- UETR: " -> o.uetr
      [] label = "- Original MsgId: " -> o.original_msg_id
      [] label = "- Original InstrId: " -> o.original_instr_id
      [] label = "- Original EndToEndId: " -> o.original_end_to_end_id
      [] label = "- Reason code: " -> o.reason_code
      [] label = "- Additional info: " -> o.addtl_info

HasLine(body, label) == \E i \in DOMAIN body : body[i][1] = label

EmailBuilt == call.op = "analyze_failure" /\ ~Raised(result)

\* C17: the body of the investigation message has the line of a reference
\* (UETR, Original MsgId, Original InstrId, Original EndToEndId, Reason
\* code, Additional info) iff that overview field is present and not
\* empty, and no reference line has an empty or placeholder value.
C17_ReferencesPresentOnly ==
    EmailBuilt =>
        LET body == result.val.investigation_email.body
            o == result.val.overview
        IN  /\ \A l \in RefLabels : HasLine(body, l) <=> Truthy(RefField(o, l))
            /\ \A i \in DOMAIN body :
                  body[i][1] \in RefLabels =>
                      /\ body[i][2] = RefField(o, body[i][1])
                      /\ ~Blank(body[i][2])
                      /\ body[i][2] # "None"

\* a status report with a UETR and a reason code, a blank additional
\* information and no other reference: two reference lines
C17_Witness ==
    /\ EmailBuilt
    /\ call.inp.xml.wf
    /\ call.inp.xml.node["AddtlInf"] = WS
    /\ result.val.overview.uetr = SampleUuid
    /\ result.val.overview.reason_code = "AC04"
    /\ result.val.overview.original_msg_id = None
    /\ HasLine(result.val.investigation_email.body, "- UETR: ")
    /\ HasLine(result.val.investigation_email.body, "- Reason code: ")
    /\ ~HasLine(result.val.investigation_email.body, "- Additional info: ")
    /\ ~HasLine(result.val.investigation_email.body, "- Original MsgId: ")

\* an entry as _dedupe sees it
Trim(x) == StripVal(Or(x, ""))

\* where a trimmed value first occurs in a list
FirstSeen(items, v) ==
    CHOOSE k \in DOMAIN items :
        Trim(items[k]) = v /\ \A m \in DOMAIN items : Trim(items[m]) = v => k <= m

\* C18: _dedupe(_dedupe(xs)) = _dedupe(xs); the output has no two entries
\* equal after trimming, holds exactly the non-empty trimmed entries of xs
\* and keeps them in first-seen order.
C18_DedupeIdempotent ==
    call.op = "_dedupe" =>
        LET out == result.val
        IN  /\ dedupe(out) = out
            /\ \A i, j \in DOMAIN out : Trim(out[i]) = Trim(out[j]) => i = j
            /\ { out[i] : i \in DOMAIN out }
                  = { Trim(call.items[k]) : k \in DOMAIN call.items } \ {""}
            /\ \A i, j \in DOMAIN out :
                  i < j => FirstSeen(call.items, out[i]) < FirstSeen(call.items, out[j])

\* a list with None, a blank and the same string trimmed and padded, in
\* an order the output keeps
C18_Witness ==
    /\ call.op = "_dedupe"
    /\ call.items = <<" REF1 ", None, " SHAR", "REF1">>
    /\ result.val = <<"REF1", "SHAR">>

\* a rule has a finding at its configured severity (WARN when it has none)
\* under its own id
HasFindingOf(issues, rule, default_id) ==
    \E j \in DOMAIN issues :
        /\ issues[j].severity = Get(rule.severity, "WARN")
        /\ issues[j].code = Get(rule.id, default_id)

GuidanceEmits(issues, rules, default_id) ==
    \A k \in DOMAIN rules :
        rules[k].type = "guidance" => HasFindingOf(issues, rules[k], default_id)

\* the overlay sr2026_assess applies in the current call, <<>> if none
OverlayOfCall ==
    OverlayFor(load_sr2026_rules(call.sr).val, result.val.normalized_type)

\* C19: a guidance rule always has a finding at its configured severity,
\* whatever the fields, both as a base rule in validate_message and as an
\* overlay rule in sr2026_assess.
C19_GuidanceEmits ==
    /\ ValidatedWithRuleset
          => GuidanceEmits(result.val.issues, RulesetOfCall.rules, "RULE")
    /\ (AssessReturned /\ OverlayOfCall # <<>>)
          => GuidanceEmits(result.val.issues, OverlayOfCall.rules, "SR2026_RULE")

\* the type tags each stage evaluates
BaseRuleTypes == { "regex_field", "regex_optional", "in_set" }

OverlayRuleTypes == { "guidance", "in_set" }

\* a WARN finding with the given code whose message names the tag
NamesUnknownTag(issues, code, tag) ==
    \E j \in DOMAIN issues :
        /\ issues[j].severity = "WARN"
        /\ issues[j].code = code
        /\ \E n \in DOMAIN issues[j].message : issues[j].message[n] = tag

Reported(issues, findings) ==
    \A n \in DOMAIN findings : \E j \in DOMAIN issues : issues[j] = findings[n]

\* C20: a rule with an unrecognized type tag yields a WARN finding
\* UNKNOWN_RULE_TYPE naming the tag, and every rule declared after it is
\* still evaluated and its finding reported, for base rules and for overlay
\* rules.
C20_UnknownRuleType ==
    /\ ValidatedWithRuleset =>
          \A k \in DOMAIN RulesetOfCall.rules :
              RulesetOfCall.rules[k].type \notin BaseRuleTypes =>
                  /\ NamesUnknownTag(result.val.issues, "UNKNOWN_RULE_TYPE",
                                     RulesetOfCall.rules[k].type)
                  /\ \A m \in DOMAIN RulesetOfCall.rules :
                        m > k => Reported(result.val.issues,
                                          run_rule(result.val.extracted,
                                                   RulesetOfCall.rules[m]))
    /\ (AssessReturned /\ OverlayOfCall # <<>>) =>
          \A k \in DOMAIN OverlayOfCall.rules :
              OverlayOfCall.rules[k].type \notin OverlayRuleTypes =>
                  /\ NamesUnknownTag(result.val.issues, "UNKNOWN_RULE_TYPE",
                                     OverlayOfCall.rules[k].type)
                  /\ \A m \in DOMAIN OverlayOfCall.rules :
                        m > k => Reported(result.val.issues,
                                          overlay_rule(BaseOfCall, OverlayOfCall.rules[m]))

\* the collaborator a run_autopilot call invoked last
LastCalled == result.trace[Len(result.trace)]

\* the call read rules.yaml or sr2026.yaml, did not find it, and raised
RuleFileMissingRaised ==
    \/ /\ call.op \in { "validate_message", "sr2026_assess" }
       /\ result.exc = "FileNotFoundError"
    \/ /\ call.op = "run_autopilot"
       /\ result.exc = "FileNotFoundError"
       /\ LastCalled \in { <<"validate_message">>, <<"sr2026_assess">> }

\* C21: a missing rule configuration file is never surfaced during a
\* request: no call of validate_message, sr2026_assess or run_autopilot
\* raises a configuration-file-missing error.
C21_NoMissingFileMidRequest == ~RuleFileMissingRaised

\* the outcome of the request's operation on its input alone, with the
\* table as it was loaded
Direct(r) ==
    CASE r.op = "validate_message" -> validate_message(r.inp, r.rules)
      [] r.op = "sr2026_assess" -> sr2026_assess(r.inp, r.rules, r.sr)
      [] r.op = "analyze_failure" -> analyze_failure(r.inp)
      [] r.op = "run_autopilot" -> run_autopilot(r.inp, r.llm, None, <<>>, r.rules, r.sr)

\* C22: whatever requests ran and however the requests in progress
\* interleave, the reason-code table is as it was loaded (each entry's
\* meaning, checks and ask lists) and the outcome of every request is the
\* outcome of its operation on its own input, whatever ran before it.
C22_TableReadOnly ==
    /\ codes = PACS002_CODES
    /\ \A s \in Slots : reqs[s].pc = "done" => reqs[s].result = Direct(reqs[s])

\* two analyses of the same known reason code overlap: one has ended, the
\* other has collected the entry's lists and not yet built its report
C22_Witness ==
    \E s, t \in Slots :
        /\ reqs[s].pc = "done" /\ reqs[s].code_info = "AC04"
        /\ ~Raised(reqs[s].result)
        /\ reqs[t].pc = "build" /\ reqs[t].code_info = "AC04"
        /\ reqs[s].op = "analyze_failure" /\ reqs[t].op = "run_autopilot"

\* the mandatory fields that are absent or blank, in declaration order
MissingInOrder(parsed, mandatory_fields) ==
    SelectSeq(mandatory_fields, LAMBDA f : Blank(DictGet(parsed.fields, f)))

\* the positions of the rules that give a finding, in declaration order
FiringRules(parsed, rules) ==
    SelectSeq([k \in 1..Len(rules) |-> k], LAMBDA k : run_rule(parsed, rules[k]) # <<>>)

\* C23: the findings of validate_message are in evaluation order: first one
\* MISSING_MANDATORY finding per missing mandatory field, in the order the
\* fields are declared, then the findings of the rules in rule-declaration
\* order, each rule giving at most one; nothing is re-sorted (parser checks,
\* if any, follow).
C23_EvaluationOrder ==
    ValidatedWithRuleset =>
        LET parsed == result.val.extracted
            issues == result.val.issues
            missing == MissingInOrder(parsed, RulesetOfCall.mandatory_fields)
            firing == FiringRules(parsed, RulesetOfCall.rules)
        IN  /\ \A k \in DOMAIN RulesetOfCall.rules :
                  Len(run_rule(parsed, RulesetOfCall.rules[k])) <= 1
            /\ Len(issues) = Len(missing) + Len(firing) + Len(parsed.checks)
            /\ \A i \in DOMAIN missing :
                  /\ issues[i].code = "MISSING_MANDATORY"
                  /\ issues[i].field = missing[i]
            /\ \A i \in DOMAIN firing :
                  issues[Len(missing) + i] = run_rule(parsed, RulesetOfCall.rules[firing[i]])[1]

\* two mandatory fields are missing and two rules give findings, a warning
\* declared before an error: the order a sort by severity would change
C23_Witness ==
    /\ ValidatedWithRuleset
    /\ Len(RulesetOfCall.mandatory_fields) = 2
    /\ Len(result.val.issues) = 4
    /\ result.val.issues[1].code = "MISSING_MANDATORY"
    /\ result.val.issues[2].code = "MISSING_MANDATORY"
    /\ result.val.issues[1].field # result.val.issues[2].field
    /\ result.val.issues[3].severity = "WARN"
    /\ result.val.issues[4].severity = "ERROR"

\* C24: the router and the engines agree on what an input is: an input the
\* router classifies mt_like is detected as MT103 by detect_and_parse, one
\* it classifies pacs008_xml is detected as pacs.008, and for one it
\* classifies pacs002_xml analyze_failure extracts the status report
\* (overview.detected_message_type is pacs.002).
C24_RouterAgrees ==
    /\ (call.op = "detect_and_parse" /\ KindOfCall = "mt_like") => DetectedAs = "MT103"
    /\ (call.op = "detect_and_parse" /\ KindOfCall = "pacs008_xml") => DetectedAs = "pacs.008"
    /\ (call.op = "analyze_failure" /\ KindOfCall = "pacs002_xml") =>
          /\ ~Raised(result)
          /\ result.val.overview.detected_message_type = "pacs.002"

\* the overview values the subject is composed of that are present
PresentSubjectValues(o) ==
    { v \in { o.status, o.reason_code, o.reason_meaning } : Truthy(v) }

\* C25: the subject of the draft investigation message is composed only of
\* the overview values that are present: besides its fixed words it holds
\* the status, the reason code and the reason meaning that are present, and
\* no token or placeholder (such as "None") for one that is absent.
C25_SubjectPresentOnly ==
    EmailBuilt =>
        LET o == result.val.overview
            subject == result.val.investigation_email.subject
        IN  \A i \in DOMAIN subject :
                subject[i] \in { "Investigation: Payment status ", WS, "- " }
                                  \cup PresentSubjectValues(o)

====
